---------------------------- MODULE Spec2Model ----------------------------
(*
  Model of the AT-command register server (src/server.c), with the byte
  strings it exchanges kept as sequences of one-character strings so that
  the C string functions it relies on (strtok, atoi, strncmp, strchr,
  sprintf "%d") are computed the way the C library computes them.
*)
EXTENDS Integers, Sequences, FiniteSets, TLC

(***************************************************************************)
(* Bounds of the model and constants of the program                        *)
(***************************************************************************)

\* the request offer stops inserting once the list holds this many registers
MaxRegs == 3

\* the same, for the specification that grows the list with few other requests
MaxGrowRegs == 5

\* a receive that delivers nothing is taken while the list is shorter than this
MaxLineRegs == 4

\* the client of the session specification sends at most this many requests
MaxSession == 3

\* the client of the menu specification sends at most this many requests
MaxMenuSession == 9

\* the client sends while fewer than this many requests wait on the line
MaxPending == 2
\* bound: the largest count my_read and my_write are called with
MaxCount == 3
\* bound: calls of the transport that fail (-1) during one my_read or my_write
MaxFailed == 2
\* bound: calls of the transport that accept nothing (0) during one my_write
MaxStalled == 2

\* server.c:43, the number of bytes the server reads per request
MAX_REQ_SIZE == 20

\* server.c:293, the size of the buffer the value of a Read is printed into
RegResultSize == 2

\* server.c:42, the size of registers_t.regid and of add_register's tempid
REGID_MAX == 6

\* client.c:29, the number of menu entries print_help goes through
MAX_ENTRIES == 30

\* client.c:30, the number of registers the client starts with
INITIAL_REGS == 2

\* client.c:86, the size of the buffer update_menu prints reg_count into
RegPosSize == 2

(***************************************************************************)
(* C strings                                                               *)
(***************************************************************************)

\* the null pointer; strtok never returns an empty token, and no stored
\* bounds string is empty, so the empty sequence is free to stand for it
NULL == << >>

Digits == <<"0", "1", "2", "3", "4", "5", "6", "7", "8", "9">>

IsDigit(c) == \E i \in 1..10 : Digits[i] = c

DigitVal(c) == (CHOOSE i \in 1..10 : Digits[i] = c) - 1

\* strncmp(s, p, Len(p)) == 0
Strncmp0(s, p) == Len(s) >= Len(p) /\ SubSeq(s, 1, Len(p)) = p

\* strcmp(a, b) == 0
Strcmp0(a, b) == a = b

\* strchr(s, c) != NULL
StrchrFound(s, c) == \E i \in 1..Len(s) : s[i] = c

\* first index >= from of s that is not the delimiter d, 0 if there is none
TokStart(s, d, from) ==
  IF \E i \in from..Len(s) : s[i] # d
    THEN CHOOSE i \in from..Len(s) :
           s[i] # d /\ \A j \in from..(i - 1) : s[j] = d
    ELSE 0

\* index of the delimiter (or of the terminating NUL) that ends the token
\* starting at st
TokEnd(s, d, st) ==
  CHOOSE j \in st..(Len(s) + 1) :
    /\ (j = Len(s) + 1 \/ s[j] = d)
    /\ \A k \in st..(j - 1) : s[k] # d

\* the k-th token strtok delivers from s with the one-character delimiter d:
\* strtok(s, d) for k = 1, then strtok(NULL, d); NULL when the string is
\* exhausted
RECURSIVE StrtokFrom(_, _, _, _)
StrtokFrom(s, d, from, k) ==
  LET st == TokStart(s, d, from)
  IN IF st = 0 THEN NULL
     ELSE IF k = 1 THEN SubSeq(s, st, TokEnd(s, d, st) - 1)
     ELSE StrtokFrom(s, d, TokEnd(s, d, st) + 1, k - 1)

Strtok(s, d, k) == StrtokFrom(s, d, 1, k)

\* value of the longest run of digits at the front of s
RECURSIVE DigitRun(_, _)
DigitRun(s, acc) ==
  IF s = << >> \/ ~IsDigit(Head(s)) THEN acc
  ELSE DigitRun(Tail(s), acc * 10 + DigitVal(Head(s)))

\* isspace(c)
IsSpace(c) == c \in {" ", "\t", "\n", "\r", "\f"}

\* s without its leading white space
RECURSIVE SkipSpace(_)
SkipSpace(s) ==
  IF s # << >> /\ IsSpace(Head(s)) THEN SkipSpace(Tail(s)) ELSE s

\* atoi(s) for a non-null s: leading white space is skipped, then an optional
\* sign, then digits, anything else stops the conversion; no digits give 0.
\* Every number on the line in this model has at most five digits, so the
\* conversion never leaves the range of int.
Atoi(s) ==
  LET t == SkipSpace(s)
  IN IF t = << >> THEN 0
     ELSE IF Head(t) = "-" THEN 0 - DigitRun(Tail(t), 0)
     ELSE IF Head(t) = "+" THEN DigitRun(Tail(t), 0)
     ELSE DigitRun(t, 0)

\* sprintf(buf, "%d", n)
RECURSIVE NatToStr(_)
NatToStr(n) ==
  IF n < 10 THEN << Digits[n + 1] >>
  ELSE NatToStr(n \div 10) \o << Digits[(n % 10) + 1] >>

IntToStr(n) == IF n < 0 THEN <<"-">> \o NatToStr(0 - n) ELSE NatToStr(n)

(***************************************************************************)
(* String literals of the program                                          *)
(***************************************************************************)

StrInsert == <<"i", "n", "s", "e", "r", "t">>
StrQuit == <<"q", "u", "i", "t">>
StrATREG == <<"A", "T", "+", "R", "E", "G">>
StrAT == <<"A", "T">>
StrREG == <<"R", "E", "G">>

MsgInvalidRegister ==
  <<"I", "N", "V", "A", "L", "I", "D", " ",
    "R", "E", "G", "I", "S", "T", "E", "R", "\n">>
MsgInvalidInput ==
  <<"I", "n", "v", "a", "l", "i", "d", "I", "n", "p", "u", "t", "\n">>
MsgOK == <<"O", "K", "\n">>
MsgInvalidATCommand ==
  <<"I", "N", "V", "A", "L", "I", "D", " ",
    "A", "T", "-", "C", "O", "M", "M", "A", "N", "D", "\n">>
MsgInsertionComplete ==
  <<"I", "N", "S", "E", "R", "T", "I", "O", "N", " ",
    "C", "O", "M", "P", "L", "E", "T", "E", "\n">>
MsgTerminating ==
  <<"T", "E", "R", "M", "I", "N", "A", "T", "I", "N", "G", "\n">>

(***************************************************************************)
(* Requests the client side can put on the line                            *)
(***************************************************************************)

Str1(a) == << a >>
Str2(a, b) == << a, b >>

\* the <N> of AT+REG<N>: every id a list of n registers can hold, one it
\* cannot, and none
IdTokens(n) == { IntToStr(k) : k \in 1..(n + 1) } \cup { << >> }

\* the <int> of AT+REG<N>=<int>
WriteTokens ==
  { Str2("-", "1"), Str1("0"), Str1("2"), Str1("7"),
    <<"1", "6", "5", "3", "5">> }

\* what a user may type after the "=" that is neither "?" nor an integer:
\* letters, digits followed by letters, nothing
OtherValueTokens == { Str1("x"), Str2("2", "x"), << >> }

\* the <int> of insert+<int>+<bounds>
InsertValueTokens == { Str2("-", "1"), Str1("2") }

\* the <bounds> of insert+<int>+<bounds>
ContinuousTokens ==
  { <<"0", "-", "7">>, <<"-", "1", "-", "7">>, <<"-", "1", "-", "-", "7">> }
DiscreteTokens == { <<"-", "1", "|", "0", "|", "7">> }
OtherBoundsTokens == { Str1("7"), <<"1", "|", "x">> }
BoundsTokens == ContinuousTokens \cup DiscreteTokens \cup OtherBoundsTokens

Cmd(kind, id, val, bnd, raw) ==
  [kind |-> kind, id |-> id, val |-> val, bnd |-> bnd, raw |-> raw]

ReadRequests(ids) ==
  { Cmd("Read", StrREG \o n, << >>, << >>, StrATREG \o n) : n \in ids }

ReadBoundsRequests(ids) ==
  { Cmd("ReadBounds", StrREG \o n, << >>, << >>,
        StrATREG \o n \o <<"=", "?">>) : n \in ids }

WriteRequests(ids, values) ==
  { Cmd("Write", StrREG \o p[1], p[2], << >>,
        StrATREG \o p[1] \o <<"=">> \o p[2]) : p \in ids \X values }

TokenWriteRequests(ids, tokens) ==
  { Cmd("WriteToken", StrREG \o p[1], p[2], << >>,
        StrATREG \o p[1] \o <<"=">> \o p[2]) : p \in ids \X tokens }

InsertRequests(values, bounds) ==
  { Cmd("Insert", << >>, p[1], p[2],
        StrInsert \o <<"+">> \o p[1] \o <<"+">> \o p[2]) :
      p \in values \X bounds }

QuitRequests == { Cmd("Quit", << >>, << >>, << >>, StrQuit) }

\* requests outside the five forms of the wire grammar
OtherRaw ==
  { StrQuit \o <<"x">>,
    StrInsert,
    StrInsert \o <<"x">>,
    StrInsert \o <<"+", "2">>,
    <<"F", "O", "O", "B", "A", "R">>,
    StrATREG \o <<"1", "+", "x">>,
    StrAT }

OtherRequests == { Cmd("Other", << >>, << >>, << >>, r) : r \in OtherRaw }

Requests ==
  ReadRequests(IdTokens(MaxRegs)) \cup ReadBoundsRequests(IdTokens(MaxRegs))
    \cup WriteRequests(IdTokens(MaxRegs), WriteTokens)
    \cup TokenWriteRequests(IdTokens(MaxRegs), OtherValueTokens)
    \cup InsertRequests(InsertValueTokens, BoundsTokens)
    \cup QuitRequests \cup OtherRequests

\* the requests of the specification that grows the list
GrowRequests ==
  ReadRequests(IdTokens(MaxGrowRegs))
    \cup ReadBoundsRequests(IdTokens(MaxGrowRegs))
    \cup WriteRequests(IdTokens(MaxGrowRegs), { Str1("0"), Str1("2") })
    \cup InsertRequests({ Str1("2") },
                        { <<"0", "-", "7">>, <<"-", "1", "-", "7">>,
                          <<"-", "1", "|", "0", "|", "7">> })
    \cup QuitRequests
    \cup { Cmd("Other", << >>, << >>, << >>, <<"F", "O", "O", "B", "A", "R">>) }

\* the requests of the specification in which an observer remembers a Read
WatchRequests ==
  ReadRequests(IdTokens(MaxRegs)) \cup ReadBoundsRequests(IdTokens(MaxRegs))
    \cup WriteRequests(IdTokens(MaxRegs), { Str1("0"), Str1("2"), Str1("7") })
    \cup InsertRequests(InsertValueTokens,
                        { <<"0", "-", "7">>, <<"-", "1", "|", "0", "|", "7">> })
    \cup QuitRequests
    \cup { Cmd("Other", << >>, << >>, << >>, <<"F", "O", "O", "B", "A", "R">>) }

\* what the user types at the client's prompt in the session specification
SessionRequests ==
  ReadRequests({ Str1("1"), Str1("3") })
    \cup WriteRequests({ Str1("1") }, { Str1("7") })
    \cup InsertRequests({ Str1("2") }, { <<"0", "-", "7">> })
    \cup QuitRequests
    \cup { Cmd("Other", << >>, << >>, << >>, StrInsert \o <<"+", "2">>) }

\* what the user types in the specification that grows the menu
MenuRequests ==
  ReadRequests({ Str1("1") })
    \cup InsertRequests({ Str1("2") }, { <<"0", "-", "7">> })
    \cup QuitRequests

StrHelp == <<"h", "e", "l", "p">>

NoCmd == Cmd("None", << >>, << >>, << >>, << >>)

(***************************************************************************)
(* State                                                                   *)
(***************************************************************************)

VARIABLES
  regs,       \* the register list, head first: regid, regvalue, bounds
  numofregs,  \* the register counter
  request,    \* the C string in the request buffer
  response,   \* the C string written to the line for the request in hand
  pc,         \* where the server is: await, dispatch, closing, terminated,
              \* crashed
  cmd,        \* history: the request last delivered, as the sender built it;
              \* its kind is NoData when the last receive delivered nothing
  carried,    \* history: per register, the bounds text it was created with
  assigned,   \* history: every id ever given to a register
  rejected,   \* history: the register and the value it held when the
              \* request before this one was a Write answered InvalidInput
  seen,       \* history: the answer to one earlier Read that an observer of
              \* the line chose to remember, until a Write to that register
              \* is answered OK
  cpc,        \* where the client is: absent (no client on the line), prompt,
              \* sent (in send_request, the request written), done, crashed
  crequest,   \* the client's request buffer: the command the user typed
  reg_count,  \* the client's register counter
  menu,       \* the client's menu, menu[1..last_entry]
  shown,      \* the lines the last help command printed
  outbox,     \* the line towards the server: requests written, not yet read
  inbox,      \* the line towards the client: responses written, not yet read
  exch,       \* history of the client's exchanges: requests sent, responses
              \* taken off the line, and what the last send_request printed
  xfer        \* one call of my_read or my_write: its locals, and what the
              \* transport accepted or delivered during it

serverVars ==
  << regs, numofregs, request, response, pc, cmd, carried, assigned, rejected,
     seen >>

\* what the server never touches
clientVars == << cpc, crequest, reg_count, menu, shown, outbox, exch >>

vars == << serverVars, clientVars, inbox, xfer >>

NoReject == [live |-> FALSE, id |-> << >>, value |-> 0]

\* sent: requests written so far; got: responses taken off the line so far;
\* printed: the text the last send_request printed, empty when it printed
\* nothing; answers: which response, counted from the first the server
\* wrote, that text was, 0 when nothing was printed
NoExchange == [sent |-> 0, got |-> 0, printed |-> << >>, answers |-> 0]

\* a line of the menu: the register id it names and which command it
\* describes (read, bounds, write; title for the first line)
MenuLine(id, form) == [id |-> id, form |-> form]

\* the three lines of the menu for the register with this id
MenuLines(id) ==
  << MenuLine(id, "read"), MenuLine(id, "bounds"), MenuLine(id, "write") >>

\* the initialiser of menu: the title and the lines of REG1 and REG2
InitialMenu ==
  << MenuLine(<< >>, "title") >>
    \o MenuLines(StrREG \o Str1("1")) \o MenuLines(StrREG \o Str1("2"))

\* armed: the request in hand is the Read to remember; live: its answer is
\* remembered, with the length the list had then
NoSeen ==
  [armed |-> FALSE, live |-> FALSE, id |-> << >>, response |-> << >>, len |-> 0]

Reg(id, value, bounds) == [regid |-> id, regvalue |-> value, bounds |-> bounds]

(***************************************************************************)
(* The register list                                                       *)
(***************************************************************************)

\* position of the first node whose regid is targetid, 0 when the traversal
\* reaches the end of the list
Find(list, targetid) ==
  IF \E i \in 1..Len(list) : Strcmp0(list[i].regid, targetid)
    THEN CHOOSE i \in 1..Len(list) :
           /\ Strcmp0(list[i].regid, targetid)
           /\ \A j \in 1..(i - 1) : ~Strcmp0(list[j].regid, targetid)
    ELSE 0

\* init_reglist that numbers the first register from zero
InitReglistFromZero ==
  << Reg(StrREG \o IntToStr(0), 0, <<"0", "-", "1", "6", "5", "3", "5">>) >>

\* init_reglist
InitReglist == << Reg(StrREG \o IntToStr(1), 0, <<"0", "-", "1", "6", "5", "3", "5">>) >>

\* add_register with the id printed before the counter is increased
NewRegidStale(count) == StrREG \o IntToStr(count)

\* the id add_register builds for the register it adds
NewRegid(count) == StrREG \o IntToStr(count + 1)

\* add_register that links the new node in front of the head
AddRegisterAtHead(list, count, value, bounds) ==
  << Reg(NewRegid(count), value, bounds) >> \o list

\* add_register: the list after the call
AddRegister(list, count, value, bounds) ==
  Append(list, Reg(NewRegid(count), value, bounds))

\* print_register that returns the value of the last node once the id is
\* found
PrintRegisterOfTail(list, targetid) ==
  LET i == Find(list, targetid)
  IN IF i # 0 THEN list[Len(list)].regvalue ELSE -1

\* print_register
PrintRegister(list, targetid) ==
  LET i == Find(list, targetid)
  IN IF i # 0 THEN list[i].regvalue ELSE -1

\* print_bounds that returns the bounds of the head instead of the node found
PrintBoundsHead(list, targetid) ==
  LET i == Find(list, targetid)
  IN IF i # 0 THEN list[1].bounds ELSE NULL

\* print_bounds
PrintBounds(list, targetid) ==
  LET i == Find(list, targetid)
  IN IF i # 0 THEN list[i].bounds ELSE NULL

\* number of tokens strtok delivers from s
RECURSIVE TokCount(_, _, _)
TokCount(s, d, from) ==
  LET st == TokStart(s, d, from)
  IN IF st = 0 THEN 0 ELSE 1 + TokCount(s, d, TokEnd(s, d, st) + 1)

\* bound_check passes a null pointer to atoi: the lower bound when the
\* string holds no token, the upper bound when it holds one token and the
\* first comparison did not already decide
BoundCheckFaults(target_value, bounds) ==
  /\ ~StrchrFound(bounds, "|")
  /\ \/ Strtok(bounds, "-", 1) = NULL
     \/ /\ target_value > Atoi(Strtok(bounds, "-", 1))
        /\ Strtok(bounds, "-", 2) = NULL

\* bound_check whose discrete branch compares the first piece only
BoundCheckFirstPiece(target_value, bounds) ==
  IF StrchrFound(bounds, "|")
    THEN IF /\ TokCount(bounds, "|", 1) >= 1
            /\ target_value = Atoi(Strtok(bounds, "|", 1))
           THEN 0 ELSE -1
    ELSE IF /\ target_value > Atoi(Strtok(bounds, "-", 1))
            /\ target_value < Atoi(Strtok(bounds, "-", 2))
           THEN 0 ELSE -1

\* bound_check, when it returns: 0 or -1
BoundCheck(target_value, bounds) ==
  IF StrchrFound(bounds, "|")
    THEN IF \E k \in 1..TokCount(bounds, "|", 1) :
              target_value = Atoi(Strtok(bounds, "|", k))
           THEN 0 ELSE -1
    ELSE IF /\ target_value > Atoi(Strtok(bounds, "-", 1))
            /\ target_value < Atoi(Strtok(bounds, "-", 2))
           THEN 0 ELSE -1

\* replace_value that reports a missing register as a rejected value
ReplaceResultNoLookup(list, target_value, targetid) ==
  LET i == Find(list, targetid)
  IN IF i = 0 THEN -1
     ELSE IF BoundCheck(target_value, list[i].bounds) # -1 THEN 0 ELSE -1

\* replace_value: the value it returns, when it returns
ReplaceResult(list, target_value, targetid) ==
  LET i == Find(list, targetid)
  IN IF i = 0 THEN -2
     ELSE IF BoundCheck(target_value, list[i].bounds) # -1 THEN 0 ELSE -1

\* replace_value whose bound_check tokenises the bounds of the node itself
\* instead of a copy: the stored string ends at its first separator
ReplaceValueCutsBounds(list, target_value, targetid) ==
  LET i == Find(list, targetid)
  IN IF i # 0 /\ BoundCheck(target_value, list[i].bounds) # -1
       THEN [list EXCEPT
               ![i].regvalue = target_value,
               ![i].bounds = Strtok(list[i].bounds,
                                    IF StrchrFound(list[i].bounds, "|")
                                      THEN "|" ELSE "-", 1)]
       ELSE list

\* replace_value: the list it leaves
ReplaceValue(list, target_value, targetid) ==
  LET i == Find(list, targetid)
  IN IF i # 0 /\ BoundCheck(target_value, list[i].bounds) # -1
       THEN [list EXCEPT ![i].regvalue = target_value]
       ELSE list

\* replace_value never returns: bound_check faulted on the register found
ReplaceFaults(list, target_value, targetid) ==
  LET i == Find(list, targetid)
  IN i # 0 /\ BoundCheckFaults(target_value, list[i].bounds)

(***************************************************************************)
(* The server                                                              *)
(***************************************************************************)

\* main, up to the request loop: init_reglist, then add_register(3, "1|2|3")
InitServer ==
  /\ regs = AddRegister(InitReglist, 1, 3, <<"1", "|", "2", "|", "3">>)
  /\ numofregs = 2
  /\ request = << >>
  /\ response = << >>
  /\ pc = "await"
  /\ cmd = NoCmd
  /\ carried = << InitReglist[1].bounds, <<"1", "|", "2", "|", "3">> >>
  /\ assigned = { NewRegid(0), NewRegid(1) }
  /\ rejected = NoReject
  /\ seen = NoSeen
  /\ inbox = << >>

\* my_write of a response: with a client on the line the bytes wait there
\* until the client reads them; a server that crashed wrote nothing
LineAfter(newpc, written) ==
  IF cpc = "absent" \/ newpc = "crashed" THEN inbox ELSE Append(inbox, written)

\* the client before its main loop: the initialisers of menu, last_entry and
\* reg_count
InitClient(at) ==
  /\ cpc = at
  /\ crequest = << >>
  /\ reg_count = INITIAL_REGS
  /\ menu = InitialMenu
  /\ shown = << >>
  /\ outbox = << >>
  /\ exch = NoExchange

\* no call of my_read or my_write is followed call by call
NoTransfer ==
  [op |-> "none", at |-> "idle", count |-> 0, total |-> 0, last |-> 0,
   failed |-> 0, stalled |-> 0, sent |-> << >>, buf |-> << >>, taken |-> 0,
   ret |-> 0]

\* the server alone: what it writes to the line is not kept
Init == InitServer /\ InitClient("absent") /\ xfer = NoTransfer

\* the server with a client on the line
InitSession == InitServer /\ InitClient("prompt") /\ xfer = NoTransfer

\* my_read in the request loop: one of the requests of `offer` is in the
\* buffer; nothing has been written to the line for it yet.  An observer who
\* may watch (`watch`) decides whether to remember the answer to a Read.
ReceiveFrom(offer, cap, watch) ==
  /\ pc = "await"
  /\ \E r \in offer, w \in watch :
       /\ Len(r.raw) < MAX_REQ_SIZE
       /\ Strncmp0(r.raw, StrInsert) => numofregs < cap
       /\ w => r.kind = "Read"
       /\ request' = r.raw
       /\ cmd' = r
       /\ seen' = IF w THEN [NoSeen EXCEPT !.armed = TRUE, !.id = r.id]
                       ELSE seen
  /\ response' = << >>
  /\ pc' = "dispatch"
  /\ UNCHANGED << regs, numofregs, carried, assigned, rejected >>
  /\ UNCHANGED << clientVars, inbox, xfer >>

Receive == ReceiveFrom(Requests, MaxRegs, {FALSE})

ReceiveGrow == ReceiveFrom(GrowRequests, MaxGrowRegs, {FALSE})

ReceiveWatch == ReceiveFrom(WatchRequests, MaxRegs, BOOLEAN)

\* my_read returns 0 (the first read delivered no byte) or -1 (the first read
\* failed and the next delivered no byte): main logs the failure or prints
\* the buffer, and goes on to the dispatch with the buffer as the previous
\* iteration left it
ReceiveNothing ==
  /\ pc = "await"
  /\ \E bytes \in {0, -1} :
       /\ Strncmp0(request, StrInsert) => numofregs < MaxLineRegs
       /\ cmd' = [cmd EXCEPT !.kind = "NoData"]
  /\ response' = << >>
  /\ pc' = "dispatch"
  /\ UNCHANGED << regs, numofregs, request, carried, assigned, rejected, seen >>
  /\ UNCHANGED << clientVars, inbox, xfer >>

\* process_insertion hands a null pointer to atoi (no second token) or to
\* strcpy (no third token)
InsertionFaults(target_request) ==
  \/ Strtok(target_request, "+", 2) = NULL
  \/ Strtok(target_request, "+", 3) = NULL

\* add_register writes the id past the end of tempid and regid
RegidOverflows(count) == Len(NewRegid(count)) + 1 > REGID_MAX

\* the branch of the request loop for a request that starts with "insert":
\* process_insertion, then the acknowledgement
HandleInsertion ==
  /\ pc = "dispatch"
  /\ Strncmp0(request, StrInsert)
  /\ \E smashed \in (IF RegidOverflows(numofregs) THEN BOOLEAN ELSE {FALSE}) :
       IF InsertionFaults(request) \/ smashed
         THEN /\ pc' = "crashed"
              /\ UNCHANGED << regs, numofregs, response, carried, assigned >>
         ELSE /\ regs' = AddRegister(regs, numofregs,
                                     Atoi(Strtok(request, "+", 2)),
                                     Strtok(request, "+", 3))
              /\ numofregs' = numofregs + 1
              /\ response' = MsgInsertionComplete
              /\ carried' = Append(carried, cmd.bnd)
              /\ assigned' = assigned \cup { NewRegid(numofregs) }
              /\ pc' = "await"
  /\ rejected' = NoReject
  /\ UNCHANGED << request, cmd, seen >>
  /\ inbox' = LineAfter(pc', response')
  /\ UNCHANGED << clientVars, xfer >>

\* the quit branch with clear_regs called before the acknowledgement is sent
HandleQuitReleasesFirst ==
  /\ pc = "dispatch"
  /\ ~Strncmp0(request, StrInsert)
  /\ Strncmp0(request, StrQuit)
  /\ regs' = << >>
  /\ response' = MsgTerminating
  /\ pc' = "closing"
  /\ rejected' = NoReject
  /\ UNCHANGED << numofregs, request, cmd, carried, assigned, seen >>
  /\ inbox' = LineAfter(pc', response')
  /\ UNCHANGED << clientVars, xfer >>

\* the branch for a request that starts with "quit": the acknowledgement,
\* then the loop is left
HandleQuit ==
  /\ pc = "dispatch"
  /\ ~Strncmp0(request, StrInsert)
  /\ Strncmp0(request, StrQuit)
  /\ response' = MsgTerminating
  /\ pc' = "closing"
  /\ rejected' = NoReject
  /\ UNCHANGED << regs, numofregs, request, cmd, carried, assigned, seen >>
  /\ inbox' = LineAfter(pc', response')
  /\ UNCHANGED << clientVars, xfer >>

\* after the loop: my_close, clear_regs, return
ClearRegs ==
  /\ pc = "closing"
  /\ regs' = << >>
  /\ pc' = "terminated"
  /\ UNCHANGED << numofregs, request, response, cmd, carried, assigned,
                  rejected, seen >>
  /\ UNCHANGED << clientVars, inbox, xfer >>

\* the register id process_atcommand looks up: the second "+" token of the
\* text before the first "="
TargetRegid(target_request) ==
  Strtok(Strtok(target_request, "=", 1), "+", 2)

\* the text after the first "=", NULL when there is none
TargetValue(target_request) == Strtok(target_request, "=", 2)

\* sprintf(reg_result_string, "%d\n", v) writes past the end of the buffer
SprintfOverflows(v) == Len(IntToStr(v)) + 2 > RegResultSize

\* the last branch of the request loop: process_atcommand
HandleATCommand ==
  /\ pc = "dispatch"
  /\ ~Strncmp0(request, StrInsert)
  /\ ~Strncmp0(request, StrQuit)
  /\ IF ~Strncmp0(request, StrATREG)
       THEN /\ response' = MsgInvalidATCommand
            /\ pc' = "await"
            /\ UNCHANGED << regs, request >>
       ELSE
         LET target_regid == TargetRegid(request)
             target_value == TargetValue(request)
         IN /\ request' = StrAT
            /\ IF target_value = NULL
                 THEN LET reg_result == PrintRegister(regs, target_regid)
                      IN IF reg_result # -1
                           THEN \E smashed \in
                                    (IF SprintfOverflows(reg_result)
                                       THEN BOOLEAN ELSE {FALSE}) :
                                  IF smashed
                                    THEN /\ pc' = "crashed"
                                         /\ UNCHANGED << regs, response >>
                                    ELSE /\ response' =
                                              IntToStr(reg_result) \o <<"\n">>
                                         /\ pc' = "await"
                                         /\ UNCHANGED regs
                           ELSE /\ response' = MsgInvalidRegister
                                /\ pc' = "await"
                                /\ UNCHANGED regs
               ELSE IF Strcmp0(target_value, <<"?">>)
                 THEN LET reg_bounds == PrintBounds(regs, target_regid)
                      IN /\ response' = IF reg_bounds # NULL
                                          THEN reg_bounds
                                          ELSE MsgInvalidRegister
                         /\ pc' = "await"
                         /\ UNCHANGED regs
               ELSE LET requested_value == Atoi(target_value)
                    IN IF ReplaceFaults(regs, requested_value, target_regid)
                         THEN /\ pc' = "crashed"
                              /\ UNCHANGED << regs, response >>
                         ELSE LET value_swap_check ==
                                    ReplaceResult(regs, requested_value,
                                                  target_regid)
                              IN /\ regs' = ReplaceValue(regs, requested_value,
                                                         target_regid)
                                 /\ response' =
                                      IF value_swap_check = -2
                                        THEN MsgInvalidRegister
                                      ELSE IF value_swap_check = -1
                                        THEN MsgInvalidInput
                                      ELSE MsgOK
                                 /\ pc' = "await"
  /\ rejected' =
       IF /\ pc' = "await"
          /\ response' = MsgInvalidInput
          /\ Find(regs, TargetRegid(request)) # 0
         THEN [live |-> TRUE, id |-> TargetRegid(request),
               value |-> regs[Find(regs, TargetRegid(request))].regvalue]
         ELSE NoReject
  /\ seen' =
       IF seen.armed
         THEN IF pc' = "await" /\ Find(regs, seen.id) # 0
                THEN [seen EXCEPT !.armed = FALSE, !.live = TRUE,
                                  !.response = response', !.len = Len(regs)]
                ELSE NoSeen
       ELSE IF /\ seen.live
               /\ pc' = "await"
               /\ response' = MsgOK
               /\ TargetRegid(request) = seen.id
         THEN NoSeen
       ELSE seen
  /\ UNCHANGED << numofregs, cmd, carried, assigned >>
  /\ inbox' = LineAfter(pc', response')
  /\ UNCHANGED << clientVars, xfer >>

Next == Receive \/ HandleInsertion \/ HandleQuit \/ ClearRegs \/ HandleATCommand

Spec == Init /\ [][Next]_vars

NextGrow ==
  ReceiveGrow \/ HandleInsertion \/ HandleQuit \/ ClearRegs \/ HandleATCommand

SpecGrow == Init /\ [][NextGrow]_vars

NextWatch ==
  ReceiveWatch \/ HandleInsertion \/ HandleQuit \/ ClearRegs \/ HandleATCommand

SpecWatch == Init /\ [][NextWatch]_vars

\* the server on a line whose receives may deliver nothing
(***************************************************************************)
(* The client and the line between the two                                 *)
(***************************************************************************)

\* print_help: the entries menu[0..MAX_ENTRIES-1] that are not NULL
PrintHelp(entries) ==
  SubSeq(entries, 1, IF Len(entries) < MAX_ENTRIES THEN Len(entries)
                     ELSE MAX_ENTRIES)

\* the branch of the client's loop for "help": nothing is sent
ClientHelp ==
  /\ cpc = "prompt"
  /\ crequest' = StrHelp
  /\ shown' = PrintHelp(menu)
  /\ UNCHANGED << serverVars, cpc, reg_count, menu, outbox, inbox, exch,
                  xfer >>

\* the first half of send_request, for any command other than help: my_write
\* puts the request on the line
ClientSendFrom(offer, cap) ==
  /\ cpc = "prompt"
  /\ exch.sent < cap
  /\ Len(outbox) < MaxPending
  /\ \E r \in offer :
       /\ Len(r.raw) < MAX_REQ_SIZE
       /\ crequest' = r.raw
       /\ outbox' = Append(outbox, r)
  /\ exch' = [exch EXCEPT !.sent = exch.sent + 1]
  /\ cpc' = "sent"
  /\ UNCHANGED << serverVars, reg_count, menu, shown, inbox, xfer >>

ClientSend == ClientSendFrom(SessionRequests, MaxSession)

ClientSendMenu == ClientSendFrom(MenuRequests, MaxMenuSession)

\* update_menu copies a null pointer when the request has no third "+" token
UpdateMenuFaults(req) == Strtok(req, "+", 3) = NULL

\* sprintf(reg_pos, "%d", count) writes past the end of reg_pos
RegPosOverflows(count) == Len(IntToStr(count)) + 1 > RegPosSize

\* update_menu: the menu after the three lines for reg_count are added
UpdateMenu(entries, count) == entries \o MenuLines(StrREG \o IntToStr(count))

\* the second half of send_request and what the client's loop does after
\* it.  wait_for_response(fd, 0) makes read return after half a second of
\* silence, so my_read returns with the responses that have arrived, which
\* may be none; the first of them is printed.  Then quit leaves the loop,
\* and a request that starts with "insert" increments reg_count and updates
\* the menu.
ClientRead ==
  /\ cpc = "sent"
  /\ inbox' = << >>
  /\ exch' = [exch EXCEPT
                !.got = exch.got + Len(inbox),
                !.printed = IF inbox # << >> THEN Head(inbox) ELSE << >>,
                !.answers = IF inbox # << >> THEN exch.got + 1 ELSE 0]
  /\ IF Strcmp0(crequest, StrQuit)
       THEN cpc' = "done" /\ UNCHANGED << reg_count, menu >>
     ELSE IF Strncmp0(crequest, StrInsert)
       THEN /\ reg_count' = reg_count + 1
            /\ \E smashed \in (IF RegPosOverflows(reg_count + 1)
                                  THEN BOOLEAN ELSE {FALSE}) :
                 IF UpdateMenuFaults(crequest) \/ smashed
                   THEN cpc' = "crashed" /\ UNCHANGED menu
                   ELSE /\ menu' = UpdateMenu(menu, reg_count + 1)
                        /\ cpc' = "prompt"
     ELSE cpc' = "prompt" /\ UNCHANGED << reg_count, menu >>
  /\ UNCHANGED << serverVars, crequest, shown, outbox, xfer >>

\* my_read in the server's request loop, with a client on the line: the
\* oldest request written is in the buffer
ReceiveLine ==
  /\ pc = "await"
  /\ outbox # << >>
  /\ request' = Head(outbox).raw
  /\ cmd' = Head(outbox)
  /\ outbox' = Tail(outbox)
  /\ response' = << >>
  /\ pc' = "dispatch"
  /\ UNCHANGED << regs, numofregs, carried, assigned, rejected, seen >>
  /\ UNCHANGED << cpc, crequest, reg_count, menu, shown, inbox, exch, xfer >>

NextSession ==
  \/ ClientHelp
  \/ ClientSend
  \/ ClientRead
  \/ ReceiveLine
  \/ HandleInsertion
  \/ HandleQuit
  \/ ClearRegs
  \/ HandleATCommand

SpecSession == InitSession /\ [][NextSession]_vars

NextMenu ==
  \/ ClientHelp
  \/ ClientSendMenu
  \/ ClientRead
  \/ ReceiveLine
  \/ HandleInsertion
  \/ HandleQuit
  \/ ClearRegs
  \/ HandleATCommand

SpecMenu == InitSession /\ [][NextMenu]_vars

\* ---------------------------------------------------------------------
\* my_read and my_write (commonfunc.c), one call of read or write at a time
\* ---------------------------------------------------------------------

\* the positions of memory a call can touch, relative to buf: each failed
\* call moves the next one a byte further below buf[0]
Positions == (0 - MaxFailed)..(MaxCount - 1)

\* entry of my_read or my_write with bytes_needed = count; total_read and
\* total_written start at 0, nothing of buf has been stored or accepted
EnterTransfer(op, count) ==
  [op |-> op, at |-> "first", count |-> count, total |-> 0, last |-> 0,
   failed |-> 0, stalled |-> 0, sent |-> << >>,
   buf |-> [p \in Positions |-> 0], taken |-> 0, ret |-> 0]

\* what write(fd, from, n) can return: -1, or the number of bytes accepted
WriteReturns(x, n) ==
  (IF x.failed < MaxFailed THEN {0 - 1} ELSE {})
  \cup (IF x.stalled < MaxStalled THEN {0} ELSE {})
  \cup 1..n

\* what read(fd, to, n) can return: -1, 0 when no byte came within the
\* timeout, or the number of bytes delivered
ReadReturns(x, n) ==
  (IF x.failed < MaxFailed THEN {0 - 1} ELSE {}) \cup 0..n

\* the transport takes r bytes starting at buf + offset: the positions of
\* the bytes it has accepted, in order
Accepted(sent, offset, r) ==
  sent \o [i \in 1..(IF r > 0 THEN r ELSE 0) |-> offset + i - 1]

\* the transport stores its next r bytes at buf + offset: each position
\* holds the number of the byte of the stream stored there last, 0 for none
Stored(b, offset, r, taken) ==
  [p \in Positions |->
     IF r > 0 /\ p >= offset /\ p < offset + r THEN taken + (p - offset) + 1
     ELSE b[p]]

\* the bookkeeping both functions share after a call returned r
Counted(x, r) ==
  [x EXCEPT !.last = r,
            !.failed = IF r < 0 THEN x.failed + 1 ELSE x.failed,
            !.stalled = IF r = 0 THEN x.stalled + 1 ELSE x.stalled]

\* my_write: `while (total_written < bytes_needed)`, else return
WriteLoop(x) ==
  IF x.total < x.count THEN [x EXCEPT !.at = "again"]
  ELSE [x EXCEPT !.at = "returned", !.ret = x.total]

\* my_read: `while (total_read < bytes_needed && bytes_read != 0)`
ReadLoop(x) ==
  IF x.total < x.count /\ x.last # 0 THEN [x EXCEPT !.at = "again"]
  ELSE [x EXCEPT !.at = "returned", !.ret = x.total]

\* my_write, the first call: write(fd, buf, count);
\* total_written = bytes_written
MyWriteFirst ==
  /\ xfer.op = "write"
  /\ xfer.at = "first"
  /\ \E r \in WriteReturns(xfer, xfer.count) :
       xfer' = WriteLoop([Counted(xfer, r) EXCEPT
                            !.sent = Accepted(xfer.sent, 0, r),
                            !.total = r])
  /\ UNCHANGED << serverVars, clientVars, inbox >>

\* my_write, the loop body: write(fd, buf + total_written, bytes_remaining);
\* total_written += bytes_written
MyWriteAgain ==
  /\ xfer.op = "write"
  /\ xfer.at = "again"
  /\ \E r \in WriteReturns(xfer, xfer.count - xfer.total) :
       xfer' = WriteLoop([Counted(xfer, r) EXCEPT
                            !.sent = Accepted(xfer.sent, xfer.total, r),
                            !.total = xfer.total + r])
  /\ UNCHANGED << serverVars, clientVars, inbox >>

\* my_read, the first call: read(fd, buf, count); total_read = bytes_read
MyReadFirst ==
  /\ xfer.op = "read"
  /\ xfer.at = "first"
  /\ \E r \in ReadReturns(xfer, xfer.count) :
       xfer' = ReadLoop([Counted(xfer, r) EXCEPT
                           !.buf = Stored(xfer.buf, 0, r, xfer.taken),
                           !.taken = xfer.taken + (IF r > 0 THEN r ELSE 0),
                           !.total = r])
  /\ UNCHANGED << serverVars, clientVars, inbox >>

\* my_read, the loop body: read(fd, buf + total_read, bytes_remaining);
\* total_read += bytes_read
MyReadAgain ==
  /\ xfer.op = "read"
  /\ xfer.at = "again"
  /\ \E r \in ReadReturns(xfer, xfer.count - xfer.total) :
       xfer' = ReadLoop([Counted(xfer, r) EXCEPT
                           !.buf = Stored(xfer.buf, xfer.total, r, xfer.taken),
                           !.taken = xfer.taken + (IF r > 0 THEN r ELSE 0),
                           !.total = xfer.total + r])
  /\ UNCHANGED << serverVars, clientVars, inbox >>

\* one call of my_read or of my_write with a count of 1..MaxCount
InitTransfer ==
  /\ InitServer
  /\ InitClient("absent")
  /\ \E op \in {"read", "write"}, count \in 1..MaxCount :
       xfer = EnterTransfer(op, count)

NextTransfer == MyWriteFirst \/ MyWriteAgain \/ MyReadFirst \/ MyReadAgain

SpecTransfer == InitTransfer /\ [][NextTransfer]_vars

NextLine ==
  \/ Receive
  \/ ReceiveNothing
  \/ HandleInsertion
  \/ HandleQuit
  \/ ClearRegs
  \/ HandleATCommand

SpecLine == Init /\ [][NextLine]_vars

(***************************************************************************)
(* Vocabulary of the properties: the wire grammar and what it means        *)
(***************************************************************************)

\* s is an integer literal: an optional minus sign, then one or more digits
IsIntLit(s) ==
  /\ Len(s) >= 1
  /\ LET body == IF s[1] = "-" THEN Tail(s) ELSE s
     IN Len(body) >= 1 /\ \A i \in 1..Len(body) : IsDigit(body[i])

RECURSIVE LitNat(_)
LitNat(s) ==
  IF Len(s) = 0 THEN 0
  ELSE LitNat(SubSeq(s, 1, Len(s) - 1)) * 10 + DigitVal(s[Len(s)])

\* the integer an integer literal denotes
LitVal(s) == IF s[1] = "-" THEN 0 - LitNat(Tail(s)) ELSE LitNat(s)

\* positions of a "-" that splits b into two integer literals
Separators(b) ==
  { i \in 2..(Len(b) - 1) :
      /\ b[i] = "-"
      /\ IsIntLit(SubSeq(b, 1, i - 1))
      /\ IsIntLit(SubSeq(b, i + 1, Len(b))) }

\* b has the form <int>-<int>
IsContinuous(b) == Separators(b) # {}

LowerOf(b) == LitVal(SubSeq(b, 1, (CHOOSE i \in Separators(b) : TRUE) - 1))

UpperOf(b) == LitVal(SubSeq(b, (CHOOSE i \in Separators(b) : TRUE) + 1, Len(b)))

\* the pieces of b between "|" separators, empty ones included
RECURSIVE Pieces(_)
Pieces(b) ==
  IF \E i \in 1..Len(b) : b[i] = "|"
    THEN LET i == CHOOSE i \in 1..Len(b) :
                    b[i] = "|" /\ \A j \in 1..(i - 1) : b[j] # "|"
         IN { SubSeq(b, 1, i - 1) } \cup Pieces(SubSeq(b, i + 1, Len(b)))
    ELSE { b }

\* b has the form <int>|<int>|...|<int>, at least two of them
IsDiscrete(b) ==
  /\ \E i \in 1..Len(b) : b[i] = "|"
  /\ \A q \in Pieces(b) : IsIntLit(q)

ListedIn(b) == { LitVal(q) : q \in Pieces(b) }

\* v satisfies the bounds specification b
Satisfies(v, b) ==
  IF IsContinuous(b) THEN LowerOf(b) < v /\ v < UpperOf(b)
  ELSE IF IsDiscrete(b) THEN v \in ListedIn(b)
  ELSE FALSE

\* position in the store of the register with this id, 0 when there is none
IndexOf(id) ==
  IF \E i \in 1..Len(regs) : regs[i].regid = id
    THEN CHOOSE i \in 1..Len(regs) : regs[i].regid = id
    ELSE 0

\* the request last received was built as this kind of command and the
\* server has answered it
Answered(kind) == pc = "await" /\ cmd.kind = kind

\* r is the response <int>\n for the integer v
IsValueResponse(r, v) ==
  /\ Len(r) >= 2
  /\ r[Len(r)] = "\n"
  /\ IsIntLit(SubSeq(r, 1, Len(r) - 1))
  /\ LitVal(SubSeq(r, 1, Len(r) - 1)) = v

(***************************************************************************)
(* Claims                                                                  *)
(***************************************************************************)

\* C1: for a register whose bounds are <int>-<int> with lo < hi (negative
\* integers included), a Write of lo and a Write of hi are answered
\* InvalidInput and a Write of any v with lo < v < hi is answered OK.
C1_ContinuousBoundsAreExclusive ==
  ( /\ Answered("Write")
    /\ IndexOf(cmd.id) # 0
    /\ IsIntLit(cmd.val)
    /\ IsContinuous(regs[IndexOf(cmd.id)].bounds)
    /\ LowerOf(regs[IndexOf(cmd.id)].bounds)
         < UpperOf(regs[IndexOf(cmd.id)].bounds) )
  => LET b == regs[IndexOf(cmd.id)].bounds
         v == LitVal(cmd.val)
     IN /\ v \in { LowerOf(b), UpperOf(b) } => response = MsgInvalidInput
        /\ (LowerOf(b) < v /\ v < UpperOf(b)) => response = MsgOK

\* C2: for a register whose bounds are a discrete set v1|...|vn of integers
\* (negative ones included), Write(x) is answered OK if and only if x is one
\* of the listed vi, and InvalidInput otherwise.
C2_DiscreteBoundsAreExact ==
  ( /\ Answered("Write")
    /\ IndexOf(cmd.id) # 0
    /\ IsIntLit(cmd.val)
    /\ IsDiscrete(regs[IndexOf(cmd.id)].bounds) )
  => IF LitVal(cmd.val) \in ListedIn(regs[IndexOf(cmd.id)].bounds)
       THEN response = MsgOK
       ELSE response = MsgInvalidInput

\* a Write of a negative listed value to a register with discrete bounds has
\* been answered OK and the register holds it
C2_Witness ==
  /\ Answered("Write")
  /\ IndexOf(cmd.id) # 0
  /\ IsDiscrete(regs[IndexOf(cmd.id)].bounds)
  /\ cmd.val = Str2("-", "1")
  /\ response = MsgOK
  /\ regs[IndexOf(cmd.id)].regvalue = -1

\* C3: a Read of a register present in the store, whatever integer it
\* holds, is answered with the stored value and never with an error.
C3_ReadReturnsStoredValue ==
  (Answered("Read") /\ IndexOf(cmd.id) # 0)
  => IsValueResponse(response, regs[IndexOf(cmd.id)].regvalue)

\* C4: a Read, ReadBounds or Write addressed to an id never assigned is
\* answered INVALID REGISTER, whatever the value of the Write, and the
\* store is left unchanged.
C4_UnassignedIdIsInvalidRegister ==
  [][ ( /\ pc = "dispatch"
        /\ cmd.kind \in {"Read", "ReadBounds", "Write"}
        /\ cmd.id \notin assigned )
      => ( /\ pc' = "await"
           /\ response' = MsgInvalidRegister
           /\ regs' = regs
           /\ numofregs' = numofregs ) ]_vars

\* a Write to an id never assigned, carrying a value no bounds in the store
\* accept, has been answered INVALID REGISTER
C4_Witness ==
  /\ Answered("Write")
  /\ cmd.id \notin assigned
  /\ cmd.val = <<"1", "6", "5", "3", "5">>
  /\ response = MsgInvalidRegister
  /\ Len(regs) > 2

\* C5: a request that is none of the five grammar forms is answered
\* INVALID AT-COMMAND, the store is unchanged and the server keeps running.
C5_OtherRequestsAreUnrecognized ==
  [][ (pc = "dispatch" /\ cmd.kind = "Other")
      => ( /\ pc' = "await"
           /\ response' = MsgInvalidATCommand
           /\ regs' = regs
           /\ numofregs' = numofregs ) ]_vars

\* C6: the server leaves its request loop only by handling Quit: no
\* Unrecognized command, lookup failure, bounds rejection, malformed insert
\* request or write against a register with a malformed bounds string stops
\* or crashes it.  (Left out here: a Read of a register that exists, the
\* subject of C3, and a request that only starts with quit, the subject of
\* C5.)
C6_OnlyQuitLeavesTheLoop ==
  \/ pc \in {"await", "dispatch"}
  \/ pc \in {"closing", "terminated"} /\ Strncmp0(cmd.raw, StrQuit)
  \/ pc = "crashed" /\ cmd.kind = "Read" /\ cmd.id \in assigned

\* C7: the k-th register has id REGk, ids are pairwise distinct, none is
\* reused or skipped, and the register counter equals the number of
\* registers in the list.
C7_IdsAreSequential ==
  pc # "terminated"
  => /\ numofregs = Len(regs)
     /\ \A k \in 1..Len(regs) :
          LET id == regs[k].regid
          IN /\ Len(id) > 3
             /\ SubSeq(id, 1, 3) = StrREG
             /\ IsIntLit(SubSeq(id, 4, Len(id)))
             /\ id[4] \notin {"0", "-"}
             /\ LitVal(SubSeq(id, 4, Len(id))) = k
     /\ \A j, k \in 1..Len(regs) : j # k => regs[j].regid # regs[k].regid
     /\ assigned = { regs[k].regid : k \in 1..Len(regs) }

\* three Inserts have been made, with a successful Write after them
C7_Witness ==
  /\ Answered("Write")
  /\ response = MsgOK
  /\ Len(regs) >= 5
  /\ regs[5].regid = StrREG \o Str1("5")

\* C8: a ReadBounds of a register returns exactly the bounds string its
\* Insert carried, after any intervening Reads, Writes and Inserts.
C8_BoundsRoundTrip ==
  (Answered("ReadBounds") /\ IndexOf(cmd.id) # 0)
  => response = carried[IndexOf(cmd.id)]

\* the bounds of the first inserted register are read back after a Write
\* changed its value and another Insert followed
C8_Witness ==
  /\ Answered("ReadBounds")
  /\ IndexOf(cmd.id) = 3
  /\ Len(regs) >= 4
  /\ regs[3].regvalue = 0
  /\ carried[4] # carried[3]
  /\ response = <<"-", "1", "|", "0", "|", "7">>

\* C9: a rejected Write leaves the whole store unchanged, and a following
\* Read of the target register returns the value it held before.
C9_RejectedWriteChangesNothing ==
  [][ /\ ( /\ pc = "dispatch"
            /\ cmd.kind = "Write"
            /\ response' \in {MsgInvalidInput, MsgInvalidRegister} )
         => (regs' = regs /\ numofregs' = numofregs)
      /\ ( /\ pc = "dispatch"
            /\ cmd.kind = "Read"
            /\ rejected.live
            /\ cmd.id = rejected.id
            /\ pc' = "await" )
         => IsValueResponse(response', rejected.value) ]_vars

\* C10: a Write is answered OK if and only if the register exists and the
\* value passes its bounds check; after an OK the stored value is the value
\* written and satisfies the register's own bounds specification.
C10_AcceptedWriteSatisfiesBounds ==
  (Answered("Write") /\ IsIntLit(cmd.val))
  => /\ response = MsgOK
          <=> ( /\ IndexOf(cmd.id) # 0
                /\ BoundCheck(LitVal(cmd.val),
                              regs[IndexOf(cmd.id)].bounds) = 0 )
     /\ response = MsgOK
          => /\ regs[IndexOf(cmd.id)].regvalue = LitVal(cmd.val)
             /\ Satisfies(regs[IndexOf(cmd.id)].regvalue,
                          regs[IndexOf(cmd.id)].bounds)

\* C11: whenever the server is awaiting a request, from startup onwards,
\* every register's stored value satisfies that register's own bounds
\* specification.
C11_StoredValuesSatisfyBounds ==
  pc = "await"
  => \A k \in 1..Len(regs) : Satisfies(regs[k].regvalue, regs[k].bounds)

\* C12: every well-formed Insert(v, b) is answered INSERTION COMPLETE and
\* appends exactly one register holding v and b verbatim, also when v does
\* not satisfy b; every register that existed before keeps its id, value and
\* bounds.
C12_InsertAppendsVerbatim ==
  [][ (pc = "dispatch" /\ cmd.kind = "Insert")
      => ( /\ pc' = "await"
           /\ response' = MsgInsertionComplete
           /\ Len(regs') = Len(regs) + 1
           /\ regs'[Len(regs')].regvalue = LitVal(cmd.val)
           /\ regs'[Len(regs')].bounds = cmd.bnd
           /\ \A k \in 1..Len(regs) : regs'[k] = regs[k] ) ]_vars

\* an Insert of -1 with the bounds 0-7, which -1 does not satisfy, has been
\* acknowledged and the last register holds both
C12_Witness ==
  /\ Answered("Insert")
  /\ response = MsgInsertionComplete
  /\ cmd.val = Str2("-", "1")
  /\ cmd.bnd = <<"0", "-", "7">>
  /\ ~Satisfies(LitVal(cmd.val), cmd.bnd)
  /\ Len(regs) = 3
  /\ regs[3].regvalue = -1
  /\ regs[3].bounds = <<"0", "-", "7">>

\* C13: the server sends exactly one response for each request it receives
\* and does not receive the next request before that response is sent:
\* receives and responses alternate strictly, starting with a receive.  A
\* request is received by the step that enters dispatch, and the one step
\* that leaves dispatch is the step that writes its response.  (Left out
\* here: a Read of a register that exists, the subject of C3.)
C13_ReceivesAndResponsesAlternate ==
  [][ /\ pc' = "dispatch" => (pc = "await" /\ response' = << >>)
      /\ (pc = "dispatch" /\ ~(cmd.kind = "Read" /\ cmd.id \in assigned))
           => (pc' \in {"await", "closing"} /\ response' # << >>)
      /\ pc # "dispatch" => response' \in {response, << >>} ]_vars

\* C14: when Quit is handled the server sends TERMINATING while the store
\* is still whole, releases the store after that, and then is Terminated:
\* from there no request is received, no response sent and the store is not
\* touched, that is, no step is taken at all.
C14_QuitAcknowledgedThenTerminated ==
  [][ /\ (pc = "dispatch" /\ cmd.kind = "Quit")
           => ( /\ response' = MsgTerminating
                /\ regs' = regs
                /\ regs # << >>
                /\ pc' = "closing" )
      /\ pc = "closing"
           => ( /\ response = MsgTerminating
                /\ response' = response
                /\ regs' = << >>
                /\ pc' = "terminated" )
      /\ regs' = << >> => pc = "closing"
      /\ pc # "terminated" ]_vars

\* a Quit after an Insert has been acknowledged and the store released
C14_Witness ==
  /\ pc = "terminated"
  /\ cmd.kind = "Quit"
  /\ response = MsgTerminating
  /\ regs = << >>
  /\ numofregs = 3

\* C15: right after startup the store holds exactly REG1 (value 0, bounds
\* 0-16535) and REG2 (value 3, bounds 1|2|3), in this order; in every state
\* before the store is released on Quit it is non-empty and still contains
\* REG1 and REG2 with these bounds.
C15_DefaultRegistersPersist ==
  /\ cmd = NoCmd
       => regs = << [regid |-> <<"R", "E", "G", "1">>, regvalue |-> 0,
                     bounds |-> <<"0", "-", "1", "6", "5", "3", "5">>],
                    [regid |-> <<"R", "E", "G", "2">>, regvalue |-> 3,
                     bounds |-> <<"1", "|", "2", "|", "3">>] >>
  /\ pc # "terminated"
       => /\ Len(regs) >= 2
          /\ regs[1].regid = <<"R", "E", "G", "1">>
          /\ regs[1].bounds = <<"0", "-", "1", "6", "5", "3", "5">>
          /\ regs[2].regid = <<"R", "E", "G", "2">>
          /\ regs[2].bounds = <<"1", "|", "2", "|", "3">>

\* both default registers have been written to and a third register has
\* been inserted
C15_Witness ==
  /\ pc = "await"
  /\ Len(regs) = 3
  /\ regs[1].regvalue = 7
  /\ regs[2].regvalue = 2
  /\ cmd.kind = "Insert"

\* C16: a Read and a ReadBounds never change the store, and two Reads of
\* the same register with no Write to it answered OK between them get the
\* same answer, whatever other Reads, ReadBounds, rejected Writes, Writes to
\* other registers and Inserts come between.
C16_ReadsDoNotChangeTheStore ==
  [][ /\ (pc = "dispatch" /\ cmd.kind \in {"Read", "ReadBounds"})
           => (regs' = regs /\ numofregs' = numofregs)
      /\ ( /\ pc = "dispatch"
            /\ cmd.kind = "Read"
            /\ seen.live
            /\ cmd.id = seen.id
            /\ pc' = "await" )
           => response' = seen.response ]_vars

\* REG1 was read as 7, an Insert followed, and a second Read of REG1 has
\* been answered 7 again
C16_Witness ==
  /\ Answered("Read")
  /\ seen.live
  /\ cmd.id = seen.id
  /\ cmd.id = <<"R", "E", "G", "1">>
  /\ Len(regs) > seen.len
  /\ response = seen.response
  /\ response = <<"7", "\n">>

\* the step handles the request in hand as a Write of v to the register
\* cmd.id: INVALID REGISTER when there is none; otherwise the bounds check of
\* the register decides between OK with v stored and InvalidInput with the
\* store unchanged, or ends the process where it does so for a Write
HandledAsWrite(v) ==
  LET k == IndexOf(cmd.id)
  IN IF k = 0
       THEN pc' = "await" /\ response' = MsgInvalidRegister /\ regs' = regs
     ELSE IF BoundCheckFaults(v, regs[k].bounds)
       THEN pc' = "crashed" /\ regs' = regs
     ELSE IF BoundCheck(v, regs[k].bounds) = 0
       THEN /\ pc' = "await"
            /\ response' = MsgOK
            /\ regs' = [regs EXCEPT ![k].regvalue = v]
     ELSE pc' = "await" /\ response' = MsgInvalidInput /\ regs' = regs

\* C17: a request AT+REG<N>=<token> whose token is neither "?" nor an
\* integer literal (the empty token and a number followed by other
\* characters included) is handled exactly as Write(REG<N>, 0).
C17_NonIntegerTokenIsWriteOfZero ==
  [][ (pc = "dispatch" /\ cmd.kind = "WriteToken") => HandledAsWrite(0) ]_vars

\* C18: for a register whose bounds string has neither the discrete nor the
\* continuous shape, every Write of any value is answered InvalidInput, the
\* store is unchanged, and the server neither errors nor stops.
C18_MalformedBoundsRejectEveryWrite ==
  [][ ( /\ pc = "dispatch"
        /\ cmd.kind = "Write"
        /\ IndexOf(cmd.id) # 0
        /\ ~IsContinuous(regs[IndexOf(cmd.id)].bounds)
        /\ ~IsDiscrete(regs[IndexOf(cmd.id)].bounds) )
      => ( /\ pc' = "await"
           /\ response' = MsgInvalidInput
           /\ regs' = regs ) ]_vars

\* the integers that the integer-literal pieces of b denote
LiteralPieces(b) == { LitVal(q) : q \in { t \in Pieces(b) : IsIntLit(t) } }

\* C19: in a bounds string with "|" separators, a piece that is empty or not
\* an integer literal matches no value: a Write(x) to such a register is
\* answered OK only when x equals a piece that is an integer literal.
C19_OnlyLiteralPiecesMatch ==
  ( /\ Answered("Write")
    /\ IsIntLit(cmd.val)
    /\ IndexOf(cmd.id) # 0
    /\ StrchrFound(regs[IndexOf(cmd.id)].bounds, "|")
    /\ response = MsgOK )
  => LitVal(cmd.val) \in LiteralPieces(regs[IndexOf(cmd.id)].bounds)

\* C20: when a receive fails or delivers no new request, the server
\* executes no command in that iteration: the store is unchanged (a
\* previously received Insert is not applied a second time), the server is
\* not terminated, and it goes back to receiving.
C20_NothingReceivedNothingExecuted ==
  [][ (pc = "dispatch" /\ cmd.kind = "NoData")
      => ( /\ regs' = regs
           /\ numofregs' = numofregs
           /\ pc' = "await" ) ]_vars

\* C21: a successful Write(id, v) changes nothing but the value of register
\* id: the values of all other registers, the id and the bounds string of
\* every register, the order of the registers and the register count are the
\* same before and after.
C21_WriteChangesOnlyTheTargetValue ==
  [][ (pc = "dispatch" /\ cmd.kind = "Write" /\ response' = MsgOK)
      => ( /\ Len(regs') = Len(regs)
           /\ numofregs' = numofregs
           /\ \A k \in 1..Len(regs) :
                /\ regs'[k].regid = regs[k].regid
                /\ regs'[k].bounds = regs[k].bounds
                /\ k # IndexOf(cmd.id) => regs'[k].regvalue = regs[k].regvalue ) ]_vars

\* a Write of 0 to the inserted REG3, bounds -1|0|7, has been answered OK
\* while REG1 and REG2 hold values written earlier
C21_Witness ==
  /\ Answered("Write")
  /\ response = MsgOK
  /\ cmd.id = <<"R", "E", "G", "3">>
  /\ Len(regs) = 3
  /\ regs[3].regvalue = 0
  /\ regs[3].bounds = <<"-", "1", "|", "0", "|", "7">>
  /\ regs[1].regvalue = 7
  /\ regs[2].regvalue = 2

\* C22: the client does not take the next user command before it has
\* received the server's response to the request it just sent: whenever
\* send_request has returned, what it printed is the server's response to
\* the request it sent last, whatever the delay of the server.
C22_PrintedResponseAnswersTheRequest ==
  (cpc \in {"prompt", "done", "crashed"} /\ exch.sent > 0)
  => exch.answers = exch.sent

\* C23: the client adds a register to its menu only for an insertion the
\* server acknowledged; when an exchange is completed the client's register
\* count equals the server's, and the menu lines just added name the id the
\* server assigned to the new register.
C23_MenuMirrorsTheServer ==
  [][ (cpc = "sent" /\ cpc' # "sent")
      => ( /\ reg_count' = numofregs
           /\ reg_count' # reg_count
                => ( /\ exch'.printed = MsgInsertionComplete
                     /\ exch'.answers = exch'.sent
                     /\ regs # << >>
                     /\ menu' = menu \o MenuLines(regs[Len(regs)].regid) ) ) ]_vars

\* the step is the client's help command
IsHelpStep ==
  /\ cpc = "prompt"
  /\ cpc' = "prompt"
  /\ crequest' = StrHelp
  /\ serverVars' = serverVars

\* C24: the help command sends nothing to the server and prints every line
\* of the menu the client holds: the seven initial lines and the three lines
\* added for each register inserted so far, for any number of insertions.
C24_HelpPrintsTheWholeMenu ==
  [][ IsHelpStep
      => ( /\ outbox' = outbox
           /\ exch' = exch
           /\ shown' = menu
           /\ Len(shown') = 7 + 3 * (reg_count - INITIAL_REGS) ) ]_vars

\* C25: my_write(fd, buf, count) returns only after the transport has
\* accepted exactly the count bytes buf[0..count-1], each once and in order,
\* and it returns count, for every pattern of partial and failed writes.
C25_MyWriteDeliversExactlyTheBuffer ==
  (xfer.op = "write" /\ xfer.at = "returned")
  => ( /\ xfer.sent = [i \in 1..xfer.count |-> i - 1]
       /\ xfer.ret = xfer.count )

\* the number of bytes stored contiguously from buf[0]
StoredFromStart(b) ==
  Cardinality({ n \in 0..(MaxCount - 1) : \A p \in 0..n : b[p] # 0 })

\* C26: my_read(fd, buf, count) keeps reading until count bytes have
\* accumulated or a read returned 0; the value it returns is the number of
\* bytes it stored contiguously from buf[0] and is never more than count,
\* for every pattern of partial and failed reads.
C26_MyReadReturnsWhatItStored ==
  (xfer.op = "read" /\ xfer.at = "returned")
  => ( /\ xfer.ret = xfer.count \/ xfer.last = 0
       /\ xfer.ret = StoredFromStart(xfer.buf)
       /\ xfer.ret <= xfer.count )

=============================================================================
